---------------------------- MODULE Spec2Model ----------------------------
(***************************************************************************)
(* A model of sshwrapper.go: Dial (agent socket, signers, address parse,   *)
(* transport dial, forwarding setup, deferred cleanup), Close, SetEnvs and *)
(* the three command executions Output, CombinedOutput and Run.            *)
(*                                                                         *)
(* The transport library (golang.org/x/crypto/ssh), the agent library      *)
(* (golang.org/x/crypto/ssh/agent) and package net are collaborators: each *)
(* call into them is a step whose outcome is chosen nondeterministically   *)
(* among success and failure, except that nothing succeeds on a transport  *)
(* that was closed.                                                        *)
(***************************************************************************)
EXTENDS Integers, Sequences, FiniteSets, TLC

(***************************************************************************)
(* Bounds                                                                  *)
(***************************************************************************)
\* total number of Output/CombinedOutput/Run calls in a behaviour
MaxExecs == 3
\* total number of Close calls in a behaviour
MaxCloses == 2

\* the threads of control that can issue command executions
Threads == {"t1", "t2"}

\* the threads that do so under Spec: one caller, whose executions follow one
\* another, while SetEnvs and Close are called from other threads at any time
Callers == {"t1"}

(***************************************************************************)
(* Strings are sequences of one-character strings.                         *)
(***************************************************************************)
Digits == <<"0", "1", "2", "3", "4", "5", "6", "7", "8", "9">>

IsDigit(c) == \E i \in 1..10 : Digits[i] = c

DigitVal(c) == (CHOOSE i \in 1..10 : Digits[i] = c) - 1

\* strings.Index for a one-character separator; 0 when absent
IndexOf(s, sep) ==
    IF \E i \in 1..Len(s) : s[i] = sep
    THEN CHOOSE i \in 1..Len(s) : s[i] = sep /\ \A j \in 1..(i-1) : s[j] # sep
    ELSE 0

\* strings.Split(s, sep) with a one-character separator
RECURSIVE Split(_, _)
Split(s, sep) ==
    LET i == IndexOf(s, sep) IN
    IF i = 0 THEN <<s>>
    ELSE <<SubSeq(s, 1, i-1)>> \o Split(SubSeq(s, i+1, Len(s)), sep)

RECURSIVE DigitsValue(_)
DigitsValue(s) ==
    IF Len(s) = 0 THEN 0
    ELSE DigitsValue(SubSeq(s, 1, Len(s)-1)) * 10 + DigitVal(s[Len(s)])

\* strconv.Atoi: optional sign, then one or more decimal digits.  The strings
\* of the model are far shorter than the 19 digits where the int range ends.
Atoi(s) ==
    LET signed == Len(s) > 0 /\ s[1] \in {"+", "-"}
        body   == IF signed THEN SubSeq(s, 2, Len(s)) ELSE s
        ok     == Len(body) > 0 /\ \A i \in 1..Len(body) : IsDigit(body[i])
        n      == IF ok THEN DigitsValue(body) ELSE 0
    IN  [ok |-> ok, val |-> IF signed /\ s[1] = "-" THEN 0 - n ELSE n]

RECURSIVE NatToStr(_)
NatToStr(n) ==
    IF n < 10 THEN <<Digits[n+1]>>
    ELSE NatToStr(n \div 10) \o <<Digits[(n % 10) + 1]>>

\* the %d verb of fmt.Sprintf
Itoa(n) == IF n < 0 THEN <<"-">> \o NatToStr(0 - n) ELSE NatToStr(n)

(***************************************************************************)
(* Error values.  typ is the kind of the Go value, prefix the text put in  *)
(* front by fmt.Errorf, cause the step that produced the underlying error, *)
(* status the remote exit status of an exit error.                         *)
(***************************************************************************)
Err(typ, prefix, cause, status) ==
    [typ |-> typ, prefix |-> prefix, cause |-> cause, status |-> status]

Nil == Err("nil", "", "", 0)

\* fmt.Errorf(prefix + ": %v", e): a new error string that carries e's text
Errorf(prefix, e) == Err("errorString", prefix, e.cause, 0)

(***************************************************************************)
(* ParseAddr                                                               *)
(***************************************************************************)
DefaultPort == 22

DefaultUser == <<"r", "o", "o", "t">>

ParseFail(e) == [host |-> <<>>, port |-> 0, user |-> <<>>, err |-> e]

IncorrectAddr == Err("errorString", "incorrect addr format", "ParseAddr", 0)

ParseHostPort(s, user) ==
    LET fields == Split(s, ":") IN
    CASE Len(fields) = 1 ->
           [host |-> fields[1], port |-> DefaultPort, user |-> user, err |-> Nil]
      [] Len(fields) = 2 ->
           IF Len(fields[2]) = 0 THEN ParseFail(IncorrectAddr)
           ELSE LET d == Atoi(fields[2]) IN
                IF ~d.ok THEN ParseFail(Err("NumError", "", "Atoi", 0))
                ELSE [host |-> fields[1], port |-> d.val, user |-> user, err |-> Nil]
      [] OTHER -> ParseFail(IncorrectAddr)

\* mutation: the two sides of the "@" are taken the wrong way round
ParseAddr_Swapped(s) ==
    LET fields == Split(s, "@") IN
    CASE Len(fields) = 1 -> ParseHostPort(s, DefaultUser)
      [] Len(fields) = 2 ->
           IF Len(fields[2]) = 0 THEN ParseFail(IncorrectAddr)
           ELSE ParseHostPort(fields[1], fields[2])
      [] OTHER -> ParseFail(IncorrectAddr)

\* lines 186-201 and, through ParseHostPort, 203-220
ParseAddr(s) ==
    LET fields == Split(s, "@") IN
    CASE Len(fields) = 1 -> ParseHostPort(s, DefaultUser)
      [] Len(fields) = 2 ->
           IF Len(fields[2]) = 0 THEN ParseFail(IncorrectAddr)
           ELSE ParseHostPort(fields[2], fields[1])
      [] OTHER -> ParseFail(IncorrectAddr)


(***************************************************************************)
(* State                                                                   *)
(***************************************************************************)
VARIABLES
    dial,       \* the frame of the Dial call: position, arguments, locals, results
    agentConn,  \* the agent socket: state and number of Close calls issued on it
    client,     \* the transport: state, Close calls, the target it was dialed to
    calls,      \* how often Dial invoked each collaborator
    conn,       \* the SSHConn value: forwardAgent and envs
    execs,      \* per thread, the frame of its Output/CombinedOutput/Run call
    channels,   \* the channels opened on the transport, in order of opening
    closer,     \* the frame of the Close call
    counts,     \* number of execution calls made, Close calls made and returned
    parse       \* the frame of a standalone ParseAddr call: argument and results

vars == <<dial, agentConn, client, calls, conn, execs, channels, closer, counts,
          parse>>

(***************************************************************************)
(* Inputs                                                                  *)
(***************************************************************************)
\* addresses handed to Dial: two well-formed, four malformed
Addrs == { <<"h">>,
           <<"u", "@", "h", ":", "7">>,
           <<"h", ":">>,
           <<"h", ":", "x">>,
           <<"a", "@", "b", "@", "c">>,
           <<"@", "h">> }

Keys == {"K1", "K2"}

\* environment mappings handed to SetEnvs
EnvMaps == { [k \in {} |-> "a"],
             [k \in {"K1"} |-> "a"],
             [k \in Keys |-> IF k = "K1" THEN "b" ELSE "a"] }

Modes == {"Output", "CombinedOutput", "Run"}

(***************************************************************************)
(* Dial                                                                    *)
(***************************************************************************)
NoFrame ==
    [pc |-> "init", addr |-> <<>>, forwardAgent |-> FALSE,
     agentOk |-> FALSE, clientOk |-> FALSE, defers |-> <<>>,
     ret |-> FALSE, err |-> Nil]

NoTarget == [user |-> <<>>, addr |-> <<>>]

\* "return nil, err": the results are set and the deferred functions run
ReturnErr(d, e) == [d EXCEPT !.pc = "defer", !.ret = FALSE, !.err = e]

\* mutation: the return after a failed net.Dial is missing
AfterNetDial_NoReturn(d, ok) ==
    IF ok THEN [d EXCEPT !.pc = "signers", !.defers = Append(@, "agent")]
    ELSE [d EXCEPT !.pc = "signers", !.err = Err("OpError", "", "net.Dial", 0)]

\* where Dial goes after net.Dial (lines 34-37)
AfterNetDial(d, ok) ==
    IF ok THEN [d EXCEPT !.pc = "signers", !.defers = Append(@, "agent")]
    ELSE ReturnErr(d, Err("OpError", "", "net.Dial", 0))

\* mutation: the return after a failed Signers is missing
AfterSigners_NoReturn(d, ok) ==
    IF ok THEN [d EXCEPT !.pc = "parse"]
    ELSE [d EXCEPT !.pc = "parse", !.err = Err("agentError", "", "Signers", 0)]

\* where Dial goes after sshAgent.Signers (lines 46-49)
AfterSigners(d, ok) ==
    IF ok THEN [d EXCEPT !.pc = "parse"]
    ELSE ReturnErr(d, Err("agentError", "", "Signers", 0))

\* where Dial goes after ParseAddr (lines 51-54)
AfterParse(d, r) ==
    IF r.err = Nil THEN [d EXCEPT !.pc = "sshDial"]
    ELSE ReturnErr(d, r.err)

\* mutation: the transport's deferred Close is registered before the error check
AfterSshDial_DeferFirst(d, ok) ==
    IF ok THEN [d EXCEPT !.pc = IF d.forwardAgent THEN "forward" ELSE "success",
                         !.defers = Append(@, "client")]
    ELSE [ReturnErr(d, Err("dialError", "", "ssh.Dial", 0))
             EXCEPT !.defers = Append(@, "client")]

\* where Dial goes after ssh.Dial (lines 61-70)
AfterSshDial(d, ok) ==
    IF ok THEN [d EXCEPT !.pc = IF d.forwardAgent THEN "forward" ELSE "success",
                         !.defers = Append(@, "client")]
    ELSE ReturnErr(d, Err("dialError", "", "ssh.Dial", 0))

\* where Dial goes after agent.ForwardToAgent (lines 73-75)
AfterForward(d, ok) ==
    IF ok THEN [d EXCEPT !.pc = "success"]
    ELSE ReturnErr(d, Errorf("SetupForwardKeyring",
                             Err("agentError", "", "ForwardToAgent", 0)))

\* mutation: the first deferred function is missing: the agent socket is never closed
AgentDeferCloses_Never(d) == FALSE

\* the deferred function of lines 39-43 closes the agent socket
AgentDeferCloses(d) == ~d.agentOk

\* mutation: the second deferred function is missing: the transport is never closed
ClientDeferCloses_Never(d) == FALSE

\* the deferred function of lines 66-70 closes the transport
ClientDeferCloses(d) == ~d.clientOk

\* the address ssh.Dial is given (line 61)
DialTarget(r) == [user |-> r.user, addr |-> r.host \o <<":">> \o Itoa(r.port)]

Close1(res) == [res EXCEPT !.state = "closed", !.closeCalls = @ + 1]

DialCall(addr, forwardAgent) ==
    /\ dial.pc = "init"
    /\ dial' = [dial EXCEPT !.pc = "netDial", !.addr = addr,
                            !.forwardAgent = forwardAgent]
    /\ UNCHANGED <<agentConn, client, calls, conn, execs, channels, closer, counts, parse>>

DialNetDial(ok) ==
    /\ dial.pc = "netDial"
    /\ calls' = [calls EXCEPT !.netDial = @ + 1]
    /\ agentConn' = IF ok THEN [agentConn EXCEPT !.state = "open"] ELSE agentConn
    /\ dial' = AfterNetDial(dial, ok)
    /\ UNCHANGED <<client, conn, execs, channels, closer, counts, parse>>

DialSigners(ok) ==
    /\ dial.pc = "signers"
    /\ calls' = [calls EXCEPT !.signers = @ + 1]
    /\ dial' = AfterSigners(dial, ok)
    /\ UNCHANGED <<agentConn, client, conn, execs, channels, closer, counts, parse>>

DialParse ==
    /\ dial.pc = "parse"
    /\ calls' = [calls EXCEPT !.parseAddr = @ + 1]
    /\ dial' = AfterParse(dial, ParseAddr(dial.addr))
    /\ UNCHANGED <<agentConn, client, conn, execs, channels, closer, counts, parse>>

DialSshDial(ok) ==
    /\ dial.pc = "sshDial"
    /\ calls' = [calls EXCEPT !.sshDial = @ + 1]
    /\ client' = IF ok THEN [client EXCEPT !.state = "open",
                                           !.target = DialTarget(ParseAddr(dial.addr))]
                 ELSE client
    /\ dial' = AfterSshDial(dial, ok)
    /\ UNCHANGED <<agentConn, conn, execs, channels, closer, counts, parse>>

DialForward(ok) ==
    /\ dial.pc = "forward"
    /\ calls' = [calls EXCEPT !.forwardToAgent = @ + 1]
    /\ dial' = AfterForward(dial, ok)
    /\ UNCHANGED <<agentConn, client, conn, execs, channels, closer, counts, parse>>

\* lines 78-86: the flags are set, the SSHConn is built and returned
DialSuccess ==
    /\ dial.pc = "success"
    /\ dial' = [dial EXCEPT !.pc = "defer", !.agentOk = TRUE, !.clientOk = TRUE,
                            !.ret = TRUE, !.err = Nil]
    /\ conn' = [conn EXCEPT !.forwardAgent = dial.forwardAgent]
    /\ UNCHANGED <<agentConn, client, calls, execs, channels, closer, counts, parse>>

\* the deferred functions run last-registered first, then Dial returns
DialDefer ==
    /\ dial.pc = "defer"
    /\ Len(dial.defers) > 0
    /\ LET f == dial.defers[Len(dial.defers)] IN
         /\ client' = IF f = "client" /\ ClientDeferCloses(dial)
                      THEN Close1(client) ELSE client
         /\ agentConn' = IF f = "agent" /\ AgentDeferCloses(dial)
                         THEN Close1(agentConn) ELSE agentConn
    /\ dial' = [dial EXCEPT !.defers = SubSeq(@, 1, Len(@) - 1)]
    /\ UNCHANGED <<calls, conn, execs, channels, closer, counts, parse>>

DialReturn ==
    /\ dial.pc = "defer"
    /\ Len(dial.defers) = 0
    /\ dial' = [dial EXCEPT !.pc = "returned"]
    /\ UNCHANGED <<agentConn, client, calls, conn, execs, channels, closer, counts, parse>>

\* the caller holds a session: Dial returned a non-nil *SSHConn
HasSession == dial.pc = "returned" /\ dial.ret

(***************************************************************************)
(* Close and SetEnvs                                                       *)
(***************************************************************************)
\* mutation: Close releases the agent socket only
CloseOrder_AgentOnly == <<"agentConn">>

\* mutation: Close releases the transport only
CloseOrder_ClientOnly == <<"client">>

\* the resources Close releases, in order (lines 91-92); the error each
\* Close call returns is dropped, so the second is called whatever the first did
CloseOrder == <<"agentConn", "client">>

\* mutation: Close returns the first error it meets
AfterClose_StopOnError(todo, ok) == IF ok THEN Tail(todo) ELSE <<>>

\* lines 91-92: what is left to release once a Close call came back; its
\* result is not looked at
AfterClose(todo, ok) == Tail(todo)

\* closer.failed holds the resources whose Close reported an error during the
\* latest call of SSHConn.Close
CloseCall ==
    /\ HasSession
    /\ closer.pc = "idle"
    /\ counts.closes < MaxCloses
    /\ closer' = [pc |-> "closing", todo |-> CloseOrder, failed |-> {}]
    /\ counts' = [counts EXCEPT !.closes = @ + 1]
    /\ UNCHANGED <<dial, agentConn, client, calls, conn, execs, channels, parse>>

\* one of the two Close calls of lines 91-92.  The call can report an error
\* whatever the state of the resource, and does so when the resource was
\* closed before; the resource is released either way.
CloseStep(ok) ==
    /\ closer.pc = "closing"
    /\ Len(closer.todo) > 0
    /\ ok => (IF Head(closer.todo) = "agentConn" THEN agentConn ELSE client).state = "open"
    /\ agentConn' = IF Head(closer.todo) = "agentConn"
                    THEN Close1(agentConn) ELSE agentConn
    /\ client' = IF Head(closer.todo) = "client" THEN Close1(client) ELSE client
    /\ closer' = [closer EXCEPT !.todo = AfterClose(@, ok),
                                !.failed = IF ok THEN @ ELSE @ \cup {Head(closer.todo)}]
    /\ UNCHANGED <<dial, calls, conn, execs, channels, counts, parse>>

CloseReturn ==
    /\ closer.pc = "closing"
    /\ Len(closer.todo) = 0
    /\ closer' = [closer EXCEPT !.pc = "idle"]
    /\ counts' = [counts EXCEPT !.closed = @ + 1]
    /\ UNCHANGED <<dial, agentConn, client, calls, conn, execs, channels, parse>>

\* line 181
SetEnvs(e) ==
    /\ HasSession
    /\ conn' = [conn EXCEPT !.envs = e]
    /\ UNCHANGED <<dial, agentConn, client, calls, execs, channels, closer, counts, parse>>

(***************************************************************************)
(* Output, CombinedOutput, Run                                             *)
(***************************************************************************)
NoMap == [k \in {} |-> "a"]

\* The frame of one execution.  log is the list of the calls this execution
\* made on the transport and agent collaborators, in order: what a fake
\* collaborator would have recorded.  afterClose tells whether a Close call
\* had returned before this execution was called, atCall what the session's
\* mapping was when it was called, produced what the remote command wrote.
IdleExec ==
    [pc |-> "idle", mode |-> "Output", ch |-> 0, deferred |-> FALSE,
     envs |-> NoMap, rem |-> {}, out |-> <<>>, outW |-> <<>>, errW |-> <<>>,
     err |-> Nil, afterClose |-> FALSE, log |-> <<>>,
     atCall |-> NoMap, produced |-> <<>>]

Event(op, ch, key, val, ok) ==
    [op |-> op, ch |-> ch, key |-> key, val |-> val, ok |-> ok]

NewChannel(t) == [owner |-> t, state |-> "open", closeCalls |-> 0]

\* what the remote command wrote before it ended: chunks in order of arrival,
\* fd 1 is standard output and fd 2 standard error
Produced == { <<>>, <<[fd |-> 1, b |-> "o"], [fd |-> 2, b |-> "e"]>> }

\* how running the command can end
RunOutcomes == {"exit0", "exitNonZero", "notStarted", "transportLost"}

\* a command that ended with an exit status may have written output before
RunCases == { c \in RunOutcomes \X Produced :
                c[1] \in {"notStarted", "transportLost"} => c[2] = <<>> }

ExitStatus == 1

RunErr(outcome) ==
    CASE outcome = "exit0"         -> Nil
      [] outcome = "exitNonZero"   -> Err("ExitError", "", "exit status", ExitStatus)
      [] outcome = "notStarted"    -> Err("requestError", "", "Start", 0)
      [] outcome = "transportLost" -> Err("ExitMissingError", "", "Wait", 0)

RECURSIVE Bytes(_, _)
Bytes(chunks, fds) ==
    IF Len(chunks) = 0 THEN <<>>
    ELSE (IF Head(chunks).fd \in fds THEN <<Head(chunks).b>> ELSE <<>>)
         \o Bytes(Tail(chunks), fds)

\* lines 99-101: a failed request is wrapped by fmt.Errorf
ForwardErr(e) == Errorf("RequestAgentForwarding", e)

\* mutation: requestAgentForwarding lacks the check of forwardAgent
IssuesForwardRequest_Always(c) == TRUE

\* mutation: requestAgentForwarding returns at once, whatever forwardAgent is
IssuesForwardRequest_Never(c) == FALSE

\* line 96: whether requestAgentForwarding issues a request at all
IssuesForwardRequest(c) == c.forwardAgent

\* mutation: Run lacks the deferred session.Close()
DefersSessionClose_NotInRun(mode) == mode # "Run"

\* lines 111, 134, 159: the channel's Close is deferred once it is open
DefersSessionClose(mode) == TRUE

\* lines 108-110, 131-133, 156-158: the error of NewSession is returned as it is
NewSessionErr(e) == e

\* mutation: the error of Setenv is ignored
SetenvAborts_Never(ok) == FALSE

\* lines 118-120, 141-143, 166-168: a failed Setenv ends the execution
SetenvAborts(ok) == ~ok

\* lines 117, 140, 165: the loop goes on while a key is left
LoopDone(rem) == rem = {}

\* mutation: the error of the run is dropped once the output was collected
RunResult_DropErr(f, outcome, produced) ==
    LET p == IF outcome = "notStarted" THEN <<>> ELSE produced IN
    [f EXCEPT !.pc = "defer",
              !.err = IF p = <<>> THEN RunErr(outcome) ELSE Nil,
              !.out = CASE f.mode = "Output" -> Bytes(p, {1})
                        [] f.mode = "CombinedOutput" -> Bytes(p, {1, 2})
                        [] OTHER -> <<>>,
              !.outW = IF f.mode = "Run" THEN Bytes(p, {1}) ELSE <<>>,
              !.errW = IF f.mode = "Run" THEN Bytes(p, {2}) ELSE <<>>]

\* mutation: the collected output is dropped when the run gave an error
RunResult_DiscardOnError(f, outcome, produced) ==
    LET p == IF outcome = "exit0" THEN produced ELSE <<>> IN
    [f EXCEPT !.pc = "defer",
              !.err = RunErr(outcome),
              !.out = CASE f.mode = "Output" -> Bytes(p, {1})
                        [] f.mode = "CombinedOutput" -> Bytes(p, {1, 2})
                        [] OTHER -> <<>>,
              !.outW = IF f.mode = "Run" THEN Bytes(p, {1}) ELSE <<>>,
              !.errW = IF f.mode = "Run" THEN Bytes(p, {2}) ELSE <<>>]

\* lines 125, 148, 174-175: what the call returns once the command was run.
\* The library's Output and CombinedOutput hand back the buffer they
\* collected together with the error; Run writes to the caller's writers.
RunResult(f, outcome, produced) ==
    LET p == IF outcome = "notStarted" THEN <<>> ELSE produced IN
    [f EXCEPT !.pc = "defer",
              !.err = RunErr(outcome),
              !.out = CASE f.mode = "Output" -> Bytes(p, {1})
                        [] f.mode = "CombinedOutput" -> Bytes(p, {1, 2})
                        [] OTHER -> <<>>,
              !.outW = IF f.mode = "Run" THEN Bytes(p, {1}) ELSE <<>>,
              !.errW = IF f.mode = "Run" THEN Bytes(p, {2}) ELSE <<>>]

\* the error NewSession gives when the channel could not be opened
OpenChannelError == Err("OpenChannelError", "", "NewSession", 0)

\* nothing succeeds on a transport that was closed
Alive == client.state = "open"

\* mutation: the channel is kept where every execution finds the latest one
SessionOf_Latest(f, chans) == IF f.ch = 0 THEN 0 ELSE Len(chans)

\* lines 107, 130, 155: session is a variable local to the call, so each
\* execution works on the channel its own NewSession gave it
SessionOf(f, chans) == f.ch

ExecCall(t, mode) ==
    /\ HasSession
    /\ execs[t].pc \in {"idle", "returned"}
    /\ counts.execs < MaxExecs
    /\ execs' = [execs EXCEPT ![t] = [IdleExec EXCEPT !.pc = "newSession",
                                                      !.mode = mode,
                                                      !.afterClose = counts.closed > 0,
                                                      !.atCall = conn.envs]]
    /\ counts' = [counts EXCEPT !.execs = @ + 1]
    /\ UNCHANGED <<dial, agentConn, client, calls, conn, channels, closer, parse>>

\* lines 107-111, 130-134, 155-159
ExecNewSession(t, ok) ==
    /\ execs[t].pc = "newSession"
    /\ ok => Alive
    /\ IF ok
       THEN /\ channels' = Append(channels, NewChannel(t))
            /\ execs' = [execs EXCEPT
                  ![t].pc = "forward",
                  ![t].ch = Len(channels) + 1,
                  ![t].deferred = DefersSessionClose(execs[t].mode),
                  ![t].log = Append(@, Event("NewSession", Len(channels) + 1, "", "", TRUE))]
       ELSE /\ channels' = channels
            /\ execs' = [execs EXCEPT
                  ![t].pc = "returned",
                  ![t].err = NewSessionErr(OpenChannelError),
                  ![t].log = Append(@, Event("NewSession", 0, "", "", FALSE))]
    /\ UNCHANGED <<dial, agentConn, client, calls, conn, closer, counts, parse>>

\* lines 95-103 with 113-115, 136-138, 161-163
ExecForward(t, ok) ==
    /\ execs[t].pc = "forward"
    /\ ok => Alive
    /\ IF IssuesForwardRequest(conn)
       THEN execs' = [execs EXCEPT
                ![t].pc = IF ok THEN "range" ELSE "defer",
                ![t].err = IF ok THEN @
                           ELSE ForwardErr(Err("requestError", "",
                                               "RequestAgentForwarding", 0)),
                ![t].log = Append(@, Event("RequestAgentForwarding",
                                           SessionOf(execs[t], channels), "", "", ok))]
       ELSE /\ ok
            /\ execs' = [execs EXCEPT ![t].pc = "range"]
    /\ UNCHANGED <<dial, agentConn, client, calls, conn, channels, closer, counts, parse>>

\* lines 117, 140, 165: the range expression s.envs is evaluated once
ExecRange(t) ==
    /\ execs[t].pc = "range"
    /\ execs' = [execs EXCEPT ![t].envs = conn.envs,
                              ![t].rem = DOMAIN conn.envs,
                              ![t].pc = IF LoopDone(DOMAIN conn.envs)
                                        THEN "run" ELSE "setenv"]
    /\ UNCHANGED <<dial, agentConn, client, calls, conn, channels, closer, counts, parse>>

\* lines 117-121, 140-144, 165-169: one iteration, keys in any order
ExecSetenv(t, k, ok) ==
    /\ execs[t].pc = "setenv"
    /\ k \in execs[t].rem
    /\ ok => Alive
    /\ LET rest == execs[t].rem \ {k}
           ev == Event("Setenv", SessionOf(execs[t], channels), k, execs[t].envs[k], ok)
       IN execs' = IF SetenvAborts(ok)
                   THEN [execs EXCEPT ![t].pc = "defer",
                             ![t].err = Err("requestError", "", "Setenv", 0),
                             ![t].log = Append(@, ev)]
                   ELSE [execs EXCEPT ![t].rem = rest,
                             ![t].pc = IF LoopDone(rest) THEN "run" ELSE "setenv",
                             ![t].log = Append(@, ev)]
    /\ UNCHANGED <<dial, agentConn, client, calls, conn, channels, closer, counts, parse>>

\* lines 123-125, 146-148, 171-175; the event tells how the command ended and
\* whether the remote command was executed
ExecRun(t, outcome, produced) ==
    /\ execs[t].pc = "run"
    /\ outcome # "notStarted" => Alive
    /\ execs' = [execs EXCEPT
          ![t] = [RunResult(@, outcome, produced) EXCEPT
                    !.produced = IF outcome = "notStarted" THEN <<>> ELSE produced,
                    !.log = Append(@, Event(execs[t].mode, SessionOf(execs[t], channels), "", outcome,
                                            outcome # "notStarted"))]]
    /\ UNCHANGED <<dial, agentConn, client, calls, conn, channels, closer, counts, parse>>

\* the deferred session.Close() runs, then the call returns
ExecReturn(t) ==
    /\ execs[t].pc = "defer"
    /\ channels' = IF execs[t].deferred
                   THEN [channels EXCEPT ![SessionOf(execs[t], channels)] = Close1(@)]
                   ELSE channels
    /\ execs' = [execs EXCEPT
          ![t].pc = "returned",
          ![t].rem = {},
          ![t].log = IF execs[t].deferred
                     THEN Append(@, Event("Close", SessionOf(execs[t], channels), "", "", TRUE))
                     ELSE @]
    /\ UNCHANGED <<dial, agentConn, client, calls, conn, closer, counts, parse>>

(***************************************************************************)
(* Specification                                                           *)
(***************************************************************************)
NoParse == [pc |-> "idle", in |-> <<>>, out |-> ParseFail(Nil)]

\* the state before Dial is called
InitSession ==
    /\ dial = NoFrame
    /\ agentConn = [state |-> "none", closeCalls |-> 0]
    /\ client = [state |-> "none", closeCalls |-> 0, target |-> NoTarget]
    /\ calls = [netDial |-> 0, signers |-> 0, parseAddr |-> 0, sshDial |-> 0,
                forwardToAgent |-> 0]
    /\ conn = [forwardAgent |-> FALSE, envs |-> NoMap]
    /\ execs = [t \in Threads |-> IdleExec]
    /\ channels = <<>>
    /\ closer = [pc |-> "idle", todo |-> <<>>, failed |-> {}]
    /\ counts = [execs |-> 0, closes |-> 0, closed |-> 0]

Init ==
    /\ InitSession
    /\ parse = NoParse

Next ==
    \/ \E a \in Addrs, fa \in BOOLEAN : DialCall(a, fa)
    \/ \E ok \in BOOLEAN : DialNetDial(ok)
    \/ \E ok \in BOOLEAN : DialSigners(ok)
    \/ DialParse
    \/ \E ok \in BOOLEAN : DialSshDial(ok)
    \/ \E ok \in BOOLEAN : DialForward(ok)
    \/ DialSuccess
    \/ DialDefer
    \/ DialReturn
    \/ CloseCall
    \/ \E ok \in BOOLEAN : CloseStep(ok)
    \/ CloseReturn
    \/ \E e \in EnvMaps : SetEnvs(e)
    \/ \E t \in Callers, m \in Modes : ExecCall(t, m)
    \/ \E t \in Callers, ok \in BOOLEAN : ExecNewSession(t, ok)
    \/ \E t \in Callers, ok \in BOOLEAN : ExecForward(t, ok)
    \/ \E t \in Callers : ExecRange(t)
    \/ \E t \in Callers, k \in Keys, ok \in BOOLEAN : ExecSetenv(t, k, ok)
    \/ \E t \in Callers, c \in RunCases : ExecRun(t, c[1], c[2])
    \/ \E t \in Callers : ExecReturn(t)

Spec == Init /\ [][Next]_vars

(***************************************************************************)
(* ParseAddr called on its own                                             *)
(***************************************************************************)
\* longest address built from the alphabet
MaxAddrLen == 5

Alphabet == {"h", "@", ":", "7", "0", "-"}

\* the addresses named in the documentation of ParseAddr's behaviour
AddrExamples ==
    { <<"r", "o", "o", "t", "@", "e", "x", "a", "m", "p", "l", "e", ".", "c", "o", "m", ":", "2", "2", "2", "2">>,
      <<"e", "x", "a", "m", "p", "l", "e", ".", "c", "o", "m">>,
      <<"@", "h", "o", "s", "t">>,
      <<"u", "s", "e", "r", "@">>,
      <<"a", "@", "b", "@", "c">>,
      <<"h", "o", "s", "t", ":">>,
      <<"h", "o", "s", "t", ":", "a", "b", "c">>,
      <<"h", "o", "s", "t", ":", "1", ":", "2">>,
      <<"h", "o", "s", "t", ":", "0">>,
      <<"h", "o", "s", "t", ":", "-", "1">>,
      <<"h", "o", "s", "t", ":", "7", "0", "0", "0", "0">> }

ParseInputs ==
    UNION { [1..n -> Alphabet] : n \in 0..MaxAddrLen } \cup AddrExamples

InitParse ==
    /\ InitSession
    /\ parse \in { [pc |-> "call", in |-> s, out |-> ParseFail(Nil)] : s \in ParseInputs }

\* lines 186-221
ParseCall ==
    /\ parse.pc = "call"
    /\ parse' = [parse EXCEPT !.pc = "done", !.out = ParseAddr(parse.in)]
    /\ UNCHANGED <<dial, agentConn, client, calls, conn, execs, channels, closer, counts>>

NextParse == ParseCall

SpecParse == InitParse /\ [][NextParse]_vars

(***************************************************************************)
(* Executions called concurrently on one session                           *)
(***************************************************************************)
\* executions called on the session, over all threads
MaxConcExecs == 2

\* the state in which Dial has just returned a session (lines 81-86), and
\* SetEnvs may have stored a mapping
InitConc ==
    /\ \E fa \in BOOLEAN, e \in EnvMaps :
          /\ dial = [NoFrame EXCEPT !.pc = "returned", !.addr = <<"h">>,
                                    !.forwardAgent = fa, !.agentOk = TRUE,
                                    !.clientOk = TRUE, !.ret = TRUE]
          /\ calls = [netDial |-> 1, signers |-> 1, parseAddr |-> 1, sshDial |-> 1,
                      forwardToAgent |-> IF fa THEN 1 ELSE 0]
          /\ conn = [forwardAgent |-> fa, envs |-> e]
    /\ agentConn = [state |-> "open", closeCalls |-> 0]
    /\ client = [state |-> "open", closeCalls |-> 0,
                 target |-> DialTarget(ParseAddr(<<"h">>))]
    /\ execs = [t \in Threads |-> IdleExec]
    /\ channels = <<>>
    /\ closer = [pc |-> "idle", todo |-> <<>>, failed |-> {}]
    /\ counts = [execs |-> 0, closes |-> 0, closed |-> 0]
    /\ parse = NoParse

\* lines 106, 129, 154, called from any thread
ExecCallConc(t, mode) ==
    /\ counts.execs < MaxConcExecs
    /\ ExecCall(t, mode)

NextConc ==
    \/ \E t \in Threads, m \in Modes : ExecCallConc(t, m)
    \/ \E t \in Threads, ok \in BOOLEAN : ExecNewSession(t, ok)
    \/ \E t \in Threads, ok \in BOOLEAN : ExecForward(t, ok)
    \/ \E t \in Threads : ExecRange(t)
    \/ \E t \in Threads, k \in Keys, ok \in BOOLEAN : ExecSetenv(t, k, ok)
    \/ \E t \in Threads, c \in RunCases : ExecRun(t, c[1], c[2])
    \/ \E t \in Threads : ExecReturn(t)

SpecConc == InitConc /\ [][NextConc]_vars

(***************************************************************************)
(* Properties of Dial                                                      *)
(***************************************************************************)
\* Dial has returned and nothing was done with its result yet
DialJustReturned == dial.pc = "returned" /\ counts.closes = 0

\* a resource that was never opened, or was opened and closed exactly once
Released(res) ==
    \/ res.state = "none" /\ res.closeCalls = 0
    \/ res.state = "closed" /\ res.closeCalls = 1

\* a resource that is open and was never closed
Held(res) == res.state = "open" /\ res.closeCalls = 0

DialSucceeded ==
    /\ dial.ret
    /\ dial.err = Nil
    /\ Held(agentConn)
    /\ Held(client)

DialFailed ==
    /\ ~dial.ret
    /\ dial.err # Nil
    /\ Released(agentConn)
    /\ Released(client)

\* C1: at every return of Dial, whatever the outcome of each step and the
\* value of forwardAgent, either a session is returned with no error and both
\* the agent socket and the transport are open, or no session is returned, an
\* error is, and each of the two resources that was opened has been closed
\* (once); never one open and the other closed.
C1_DialAllOrNothing ==
    DialJustReturned =>
        /\ DialSucceeded \/ DialFailed
        /\ ~(DialSucceeded /\ DialFailed)
        /\ (agentConn.state = "open") <=> (client.state = "open")

\* Dial returned a session for which the forwarding setup was made
C1_Witness ==
    /\ DialJustReturned
    /\ DialSucceeded
    /\ dial.forwardAgent
    /\ calls.forwardToAgent = 1

\* C2: when forwardAgent is true and the forwarding setup fails after the
\* transport dial succeeded, Dial returns an error and no session, and both
\* the transport and the agent socket were closed before it returned.
C2_ForwardFailureReleasesBoth ==
    (dial.pc = "returned" /\ dial.err.cause = "ForwardToAgent") =>
        /\ dial.forwardAgent
        /\ calls.sshDial = 1
        /\ ~dial.ret
        /\ dial.err # Nil
        /\ client.state = "closed"
        /\ agentConn.state = "closed"

\* Dial returned after a failed forwarding setup
C2_Witness ==
    /\ dial.pc = "returned"
    /\ dial.err = Errorf("SetupForwardKeyring", Err("agentError", "", "ForwardToAgent", 0))
    /\ client.closeCalls = 1
    /\ agentConn.closeCalls = 1

\* C3: when the transport dial fails after the agent socket was opened and
\* the signers retrieved, no Close is issued on a transport and no forwarding
\* setup is made, and Dial returns an error, no session, with the agent
\* socket closed.
C3_DialFailureClosesAgent ==
    dial.err.cause = "ssh.Dial" =>
        /\ calls.signers = 1
        /\ client.closeCalls = 0
        /\ client.state = "none"
        /\ calls.forwardToAgent = 0
        /\ dial.pc = "returned" =>
              /\ ~dial.ret
              /\ dial.err # Nil
              /\ agentConn.state = "closed"

\* Dial returned after a failed transport dial, forwarding having been asked for
C3_Witness ==
    /\ dial.pc = "returned"
    /\ dial.err.cause = "ssh.Dial"
    /\ dial.forwardAgent
    /\ agentConn.closeCalls = 1

\* C4: when opening the agent socket fails, Dial returns an error and no
\* session, and in that call neither the signers are asked for, nor the
\* transport dialed, nor the forwarding set up.
C4_AgentOpenFailureStopsDial ==
    dial.err.cause = "net.Dial" =>
        /\ dial.pc \in {"defer", "returned"}
        /\ ~dial.ret
        /\ dial.err # Nil
        /\ calls.signers = 0
        /\ calls.sshDial = 0
        /\ calls.forwardToAgent = 0
        /\ client.state = "none"

\* Dial returned after net.Dial failed
C4_Witness ==
    /\ dial.pc = "returned"
    /\ dial.err.cause = "net.Dial"
    /\ calls.netDial = 1
    /\ agentConn.state = "none"

\* C5: when retrieving the signers fails after the agent socket was opened,
\* the transport dial is never attempted and Dial returns the error with the
\* agent socket closed.
C5_SignersFailureClosesAgent ==
    dial.err.cause = "Signers" =>
        /\ calls.sshDial = 0
        /\ client.state = "none"
        /\ dial.pc \in {"defer", "returned"}
        /\ ~dial.ret
        /\ dial.pc = "returned" => agentConn.state = "closed" /\ agentConn.closeCalls = 1

\* Dial returned after Signers failed
C5_Witness ==
    /\ dial.pc = "returned"
    /\ dial.err.cause = "Signers"
    /\ calls.signers = 1
    /\ agentConn.state = "closed"

(***************************************************************************)
(* Properties of the command executions                                    *)
(***************************************************************************)
InFlight(f) == f.pc \notin {"idle", "returned"}

\* the positions in the log of an execution where the command was handed to
\* the channel, and whether the remote command was executed
RunEvents(f) == { i \in 1..Len(f.log) : f.log[i].op \in Modes }

Executed(f) == \E i \in RunEvents(f) : f.log[i].ok

SetenvEvents(f) == { i \in 1..Len(f.log) : f.log[i].op = "Setenv" }

\* C6: in each of the three modes, an execution that opened a channel has
\* closed it when the call returns, whatever the way it ends; so every
\* channel that is open belongs to an execution that has not returned yet.
C6_ChannelClosedOnReturn ==
    /\ \A t \in Threads :
          (execs[t].pc = "returned" /\ execs[t].ch # 0) =>
              /\ channels[execs[t].ch].state = "closed"
              /\ channels[execs[t].ch].closeCalls = 1
    /\ \A c \in 1..Len(channels) :
          channels[c].state = "open" =>
              \E t \in Threads : InFlight(execs[t]) /\ execs[t].ch = c

\* after two executions that each opened a channel, a Run whose command
\* exited with a non-zero status has returned, and no channel is open
C6_Witness ==
    /\ Len(channels) >= 2
    /\ \A c \in 1..Len(channels) : channels[c].state = "closed"
    /\ \E t \in Threads :
          /\ execs[t].pc = "returned"
          /\ execs[t].mode = "Run"
          /\ execs[t].err.typ = "ExitError"
          /\ execs[t].ch = Len(channels)

\* C7: an execution called after Close has returned never gets a channel and
\* never executes a remote command, and what it returns is an error.
C7_NoExecutionAfterClose ==
    \A t \in Threads :
        execs[t].afterClose =>
            /\ execs[t].pc \in {"newSession", "returned"}
            /\ execs[t].ch = 0
            /\ RunEvents(execs[t]) = {}
            /\ execs[t].pc = "returned" => execs[t].err # Nil

\* a CombinedOutput called after Close has returned with an error
C7_Witness ==
    \E t \in Threads :
        /\ execs[t].afterClose
        /\ execs[t].pc = "returned"
        /\ execs[t].mode = "CombinedOutput"
        /\ execs[t].err = OpenChannelError

\* C8: when an execution hands the command to the channel, every entry of the
\* mapping it read from the session has been set on that channel, each set
\* successfully; and when setting a key fails, the execution ends with an
\* error: it sets no further key, never hands over the command, and closes
\* the channel before it returns.
C8_EnvsAppliedBeforeRun ==
    \A t \in Threads :
        LET f == execs[t] IN
        /\ \A i \in RunEvents(f) :
              /\ { <<f.log[j].key, f.log[j].val>> :
                      j \in { x \in SetenvEvents(f) : x < i /\ f.log[x].ok } }
                   = { <<k, f.envs[k]>> : k \in DOMAIN f.envs }
              /\ \A j \in SetenvEvents(f) : j < i /\ f.log[j].ok /\ f.log[j].ch = f.ch
        /\ \A j \in SetenvEvents(f) :
              ~f.log[j].ok =>
                  /\ f.pc \in {"defer", "returned"}
                  /\ f.err # Nil
                  /\ \A i \in (j+1)..Len(f.log) : f.log[i].op = "Close"
                  /\ f.pc = "returned" => channels[f.ch].state = "closed"

\* an execution returned after it had set one key and failed to set the other
C8_Witness ==
    \E t \in Threads :
        LET f == execs[t] IN
        /\ f.pc = "returned"
        /\ DOMAIN f.envs = Keys
        /\ \E i, j \in SetenvEvents(f) : i < j /\ f.log[i].ok /\ ~f.log[j].ok
        /\ channels[f.ch].state = "closed"

\* C9: on a session dialed with forwardAgent false, Dial made no forwarding
\* setup and no execution ever issues a forwarding request.
C9_NoForwardingWhenDisabled ==
    ~dial.forwardAgent =>
        /\ calls.forwardToAgent = 0
        /\ \A t \in Threads : \A i \in 1..Len(execs[t].log) :
              execs[t].log[i].op # "RequestAgentForwarding"

\* without forwarding, a second execution has run its command and returned
C9_Witness ==
    /\ HasSession
    /\ ~dial.forwardAgent
    /\ counts.execs >= 2
    /\ \E t \in Threads : execs[t].pc = "returned" /\ Executed(execs[t])

\* C10: an execution whose remote command ran and exited with a non-zero
\* status returns an exit error carrying that status, which differs from the
\* error returned when the channel could not be opened; also when the command
\* had produced output.
C10_ExitErrorDistinguishable ==
    \A t \in Threads :
        LET f == execs[t] IN
        f.pc \in {"defer", "returned"} =>
            /\ (\E i \in RunEvents(f) : f.log[i].val = "exitNonZero") =>
                  /\ f.err # Nil
                  /\ f.err.typ = "ExitError"
                  /\ f.err.status = ExitStatus
                  /\ f.err # NewSessionErr(OpenChannelError)
            /\ (\E i \in 1..Len(f.log) : f.log[i].op = "NewSession" /\ ~f.log[i].ok) =>
                  /\ f.err = NewSessionErr(OpenChannelError)
                  /\ f.err.typ # "ExitError"

\* an Output whose command wrote to standard output and exited non-zero
C10_Witness ==
    \E t \in Threads :
        LET f == execs[t] IN
        /\ f.pc = "returned"
        /\ f.mode = "Output"
        /\ f.out = <<"o">>
        /\ \E i \in RunEvents(f) : f.log[i].val = "exitNonZero"

(***************************************************************************)
(* Properties of ParseAddr                                                 *)
(***************************************************************************)
\* a non-empty string with neither "@" nor ":" in it
Plain(x) == Len(x) > 0 /\ \A i \in 1..Len(x) : x[i] \notin {"@", ":"}

\* a non-empty string of decimal digits
Decimal(x) == Len(x) > 0 /\ \A i \in 1..Len(x) : IsDigit(x[i])

RECURSIVE Pow10(_)
Pow10(n) == IF n = 0 THEN 1 ELSE 10 * Pow10(n - 1)

\* the number a string of decimal digits stands for
RECURSIVE PortValue(_)
PortValue(x) ==
    IF Len(x) = 0 THEN 0
    ELSE DigitVal(Head(x)) * Pow10(Len(x) - 1) + PortValue(Tail(x))

Parsed(host, port, user) == [host |-> host, port |-> port, user |-> user, err |-> Nil]

Root == <<"r", "o", "o", "t">>

\* C11: for user@host:port, host:port, user@host and host, with user and
\* host non-empty and free of "@" and ":" and port a string of decimal
\* digits, ParseAddr returns no error and exactly the given host and user and
\* the number of the port, with 22 for a missing port and "root" for a
\* missing user.
C11_ParseAddrValid ==
    parse.pc = "done" =>
        LET s == parse.in
            n == Len(s)
        IN
        /\ \A a, c \in 1..n :
              ( /\ a < c /\ s[a] = "@" /\ s[c] = ":"
                /\ Plain(SubSeq(s, 1, a-1))
                /\ Plain(SubSeq(s, a+1, c-1))
                /\ Decimal(SubSeq(s, c+1, n)) )
              => parse.out = Parsed(SubSeq(s, a+1, c-1), PortValue(SubSeq(s, c+1, n)),
                                    SubSeq(s, 1, a-1))
        /\ \A c \in 1..n :
              ( /\ s[c] = ":"
                /\ Plain(SubSeq(s, 1, c-1))
                /\ Decimal(SubSeq(s, c+1, n)) )
              => parse.out = Parsed(SubSeq(s, 1, c-1), PortValue(SubSeq(s, c+1, n)), Root)
        /\ \A a \in 1..n :
              ( /\ s[a] = "@"
                /\ Plain(SubSeq(s, 1, a-1))
                /\ Plain(SubSeq(s, a+1, n)) )
              => parse.out = Parsed(SubSeq(s, a+1, n), 22, SubSeq(s, 1, a-1))
        /\ Plain(s) => parse.out = Parsed(s, 22, Root)

\* "root@example.com:2222" was parsed
C11_Witness ==
    /\ parse.pc = "done"
    /\ parse.in = <<"r", "o", "o", "t", "@", "e", "x", "a", "m", "p", "l", "e", ".", "c", "o", "m", ":", "2", "2", "2", "2">>
    /\ parse.out = Parsed(<<"e", "x", "a", "m", "p", "l", "e", ".", "c", "o", "m">>, 2222, Root)

Count(x, c) == Cardinality({ i \in 1..Len(x) : x[i] = c })

\* an optional sign followed by decimal digits
IsInteger(x) ==
    \/ Decimal(x)
    \/ Len(x) > 1 /\ x[1] \in {"+", "-"} /\ Decimal(Tail(x))

\* the part of an address after its only "@", or all of it when it has none
HostPart(s) ==
    IF Count(s, "@") = 0 THEN s ELSE SubSeq(s, IndexOf(s, "@") + 1, Len(s))

\* an address with an empty user before "@", an empty part after "@", more
\* than one "@", an empty part after ":", more than one ":" in the host part,
\* or a port that is not an integer
Malformed(s) ==
    \/ Count(s, "@") > 1
    \/ /\ Count(s, "@") = 1
       /\ \/ IndexOf(s, "@") = 1
          \/ IndexOf(s, "@") = Len(s)
    \/ /\ Count(s, "@") <= 1
       /\ LET h == HostPart(s) IN
          \/ Count(h, ":") > 1
          \/ /\ Count(h, ":") = 1
             /\ ~IsInteger(SubSeq(h, IndexOf(h, ":") + 1, Len(h)))

\* C12: for "@host", "user@", "a@b@c", "host:", "host:abc", "host:1:2" and
\* every other malformed address, ParseAddr returns an error.
C12_MalformedRejected ==
    (parse.pc = "done" /\ Malformed(parse.in)) => parse.out.err # Nil

\* C19: whenever ParseAddr returns without error, the port is in 1..65535.
C19_PortInRange ==
    (parse.pc = "done" /\ parse.out.err = Nil) => parse.out.port \in 1..65535

(***************************************************************************)
(* Properties of Close                                                     *)
(***************************************************************************)
\* C13: when a Close of the session has returned, a Close call was issued on
\* the agent socket and one on the transport during it, also when the Close
\* of the agent socket reported an error.
C13_CloseAttemptsBoth ==
    (closer.pc = "idle" /\ counts.closed >= 1) =>
        /\ agentConn.closeCalls = counts.closed
        /\ client.closeCalls = counts.closed
        /\ agentConn.state = "closed"
        /\ client.state = "closed"

\* the first Close returned after the agent socket's Close had reported an error
C13_Witness ==
    /\ closer.pc = "idle"
    /\ counts.closed = 1
    /\ "agentConn" \in closer.failed
    /\ client.closeCalls = 1
    /\ client.state = "closed"

\* C14: once a Close of the session has returned, the agent socket and the
\* transport are closed and stay so through every further Close: the state
\* after two or more calls is the state after one.
C14_CloseIdempotent ==
    counts.closed >= 1 =>
        /\ agentConn.state = "closed"
        /\ client.state = "closed"
        /\ closer.pc \in {"idle", "closing"}
        /\ counts.closes \in {counts.closed, counts.closed + 1}

\* a second Close has returned, each of its two Close calls having reported
\* an error
C14_Witness ==
    /\ closer.pc = "idle"
    /\ counts.closed = 2
    /\ closer.failed = {"agentConn", "client"}
    /\ agentConn.state = "closed"
    /\ client.state = "closed"

(***************************************************************************)
(* Further properties of the command executions                            *)
(***************************************************************************)
\* an Output whose remote command ran and exited with a non-zero status
OutputExitedNonZero(f) ==
    /\ f.pc \in {"defer", "returned"}
    /\ f.mode = "Output"
    /\ \E i \in RunEvents(f) : f.log[i].val = "exitNonZero"

Range(x) == { x[i] : i \in 1..Len(x) }

\* C15 as stated: when the command of an Output exits with a non-zero
\* status, the call returns an error carrying the status, and none of the
\* standard output the command had written is among the returned bytes.
C15_OutputDiscarded ==
    \A t \in Threads :
        LET f == execs[t] IN
        OutputExitedNonZero(f) =>
            /\ f.err.typ = "ExitError"
            /\ f.err.status = ExitStatus
            /\ Range(f.out) \cap Range(Bytes(f.produced, {1})) = {}

\* C15 as amended: when the command of an Output exits with a non-zero
\* status, the call returns an error carrying the status together with the
\* standard output the command had written, and nothing of its standard error.
C15_OutputReturnedWithError ==
    \A t \in Threads :
        LET f == execs[t] IN
        OutputExitedNonZero(f) =>
            /\ f.err.typ = "ExitError"
            /\ f.err.status = ExitStatus
            /\ f.out = Bytes(f.produced, {1})

\* an Output returned the exit error of a command that had written to both
\* standard output and standard error
C15_Witness ==
    \E t \in Threads :
        LET f == execs[t] IN
        /\ OutputExitedNonZero(f)
        /\ f.pc = "returned"
        /\ Bytes(f.produced, {1}) = <<"o">>
        /\ Bytes(f.produced, {2}) = <<"e">>
        /\ f.out = <<"o">>
        /\ f.err.status = ExitStatus

ForwardEvents(f) == { i \in 1..Len(f.log) : f.log[i].op = "RequestAgentForwarding" }

\* C16: on a session dialed with forwardAgent true, an execution that opened
\* a channel and went past its forwarding step has issued exactly one
\* forwarding request, on its own channel, right after the channel was opened
\* and before any key was set or the command handed over; when the request
\* failed, the execution sets no key and runs no command, returns an error,
\* and has closed the channel when it returns.
C16_ForwardRequestPerExecution ==
    (HasSession /\ dial.forwardAgent) =>
        \A t \in Threads :
            LET f == execs[t] IN
            (f.ch # 0 /\ f.pc # "forward") =>
                /\ ForwardEvents(f) = {2}
                /\ f.log[1].op = "NewSession" /\ f.log[1].ok /\ f.log[1].ch = f.ch
                /\ f.log[2].ch = f.ch
                /\ \A i \in SetenvEvents(f) \cup RunEvents(f) : i > 2
                /\ ~f.log[2].ok =>
                      /\ SetenvEvents(f) = {}
                      /\ RunEvents(f) = {}
                      /\ f.pc \in {"defer", "returned"}
                      /\ f.err # Nil
                      /\ f.pc = "returned" => channels[f.ch].state = "closed"

\* with forwarding, an execution returned after its forwarding request failed,
\* and the one before it had run its command
C16_Witness ==
    /\ HasSession
    /\ dial.forwardAgent
    /\ counts.execs >= 2
    /\ \E t \in Threads :
          LET f == execs[t] IN
          /\ f.pc = "returned"
          /\ f.ch # 0
          /\ ~f.log[2].ok
          /\ f.err = ForwardErr(Err("requestError", "", "RequestAgentForwarding", 0))
          /\ channels[f.ch].state = "closed"

\* the entries of a mapping
Entries(m) == { <<k, m[k]>> : k \in DOMAIN m }

\* the entries an execution has set on its channel so far
Applied(f) == { <<f.log[j].key, f.log[j].val>> : j \in { x \in SetenvEvents(f) : f.log[x].ok } }

\* C17: an execution applies exactly the entries of the mapping the session
\* had when the execution was called, no key of another mapping: a SetEnvs
\* made while the execution is in flight does not change what it applies.
C17_InFlightKeepsMapping ==
    \A t \in Threads :
        LET f == execs[t] IN
        /\ \A j \in SetenvEvents(f) :
              <<f.log[j].key, f.log[j].val>> \in Entries(f.atCall)
        /\ RunEvents(f) # {} => Applied(f) = Entries(f.atCall)

(***************************************************************************)
(* Properties of concurrent executions                                     *)
(***************************************************************************)
\* the channels an execution touched, by its log
Touched(f) == { f.log[i].ch : i \in 1..Len(f.log) } \ {0}

\* C18: executions called concurrently on one session each work on a channel
\* of their own: every operation of an execution goes to the channel its own
\* NewSession opened, no two executions have the same channel, and nobody
\* but its execution closes a channel; once every execution has returned,
\* every channel that was opened is closed, each by exactly one Close.
C18_OwnChannelEach ==
    /\ \A t \in Threads :
          LET f == execs[t] IN
          /\ Touched(f) \subseteq {f.ch}
          /\ f.ch # 0 =>
                /\ f.ch \in 1..Len(channels)
                /\ channels[f.ch].owner = t
                /\ InFlight(f) => channels[f.ch].state = "open"
          /\ \A u \in Threads \ {t} : f.ch # 0 => execs[u].ch # f.ch
    /\ \A c \in 1..Len(channels) : channels[c].closeCalls <= 1
    /\ (\A t \in Threads : ~InFlight(execs[t])) =>
          \A c \in 1..Len(channels) :
              channels[c].state = "closed" /\ channels[c].closeCalls = 1

\* two executions overlap: both ran their command, each on the channel it
\* opened, and neither has closed its channel yet
C18_Witness ==
    /\ \A t \in Threads :
          /\ execs[t].pc = "defer"
          /\ Executed(execs[t])
          /\ SetenvEvents(execs[t]) # {}
          /\ channels[execs[t].ch].state = "open"
    /\ execs["t1"].ch = 2
    /\ execs["t2"].ch = 1

(***************************************************************************)
(* Dial with a malformed address                                           *)
(***************************************************************************)
\* Dial got through net.Dial and Signers: the agent socket was reachable
AgentReached == calls.netDial = 1 /\ calls.signers = 1 /\ dial.pc # "signers"

\* C20: Dial with a malformed address parses the address only after the agent
\* socket was opened and the signers were retrieved, never dials the
\* transport, and, the agent being reachable, returns the error of the parse
\* with the agent socket closed; when the agent socket is unreachable it
\* returns the error of net.Dial and the address is not parsed.
C20_MalformedDial ==
    Malformed(dial.addr) =>
        /\ calls.parseAddr > 0 => AgentReached
        /\ calls.sshDial = 0
        /\ (dial.pc = "returned" /\ calls.parseAddr > 0) =>
              /\ ~dial.ret
              /\ dial.err # Nil
              /\ dial.err = ParseAddr(dial.addr).err
              /\ agentConn.state = "closed" /\ agentConn.closeCalls = 1
        /\ (dial.pc = "returned" /\ dial.err.cause = "net.Dial") =>
              /\ calls.parseAddr = 0
              /\ agentConn.state = "none"

=============================================================================
